---- MODULE Spec2Model ----
(***************************************************************************)
(* Session layer (utils/auth.ts, context/AuthContext.tsx) and request      *)
(* client (utils/api.ts) of the karaoke request front end.                 *)
(*                                                                         *)
(* JavaScript values are tagged records.  A JavaScript string is a         *)
(* sequence of lexemes: the JSON structural characters, the decimal digits *)
(* and the words between them are one lexeme each, so that JSON.stringify  *)
(* and JSON.parse are real conversions between values and texts.           *)
(***************************************************************************)
EXTENDS Integers, Sequences, FiniteSets, TLC

VARIABLES storage, token, user, isLoading, last, prevRead, prevLogout, lg, http,
          nav, loginForm, deb, search, form

vars == <<storage, token, user, isLoading, last, prevRead, prevLogout, lg, http,
          nav, loginForm, deb, search, form>>

-----------------------------------------------------------------------------
(* JavaScript values *)

Undef == [t |-> "undefined"]
Null == [t |-> "null"]
Bool(b) == [t |-> "boolean", b |-> b]
Num(n) == [t |-> "number", n |-> n]
Str(s) == [t |-> "string", s |-> s]
Obj(props) == [t |-> "object", props |-> props]
Arr(items) == [t |-> "array", items |-> items]

\* a one-word string
W(x) == Str(<<x>>)

Prop(k, v) == [k |-> k, v |-> v]

\* ToBoolean: what `!x`, `x && y`, `x || y` and `if (x)` test
Truthy(v) ==
    CASE v.t = "undefined" -> FALSE
      [] v.t = "null" -> FALSE
      [] v.t = "boolean" -> v.b
      [] v.t = "number" -> v.n # 0
      [] v.t = "string" -> v.s # <<>>
      [] OTHER -> TRUE

\* a || b
OrElse(a, b) == IF Truthy(a) THEN a ELSE b

\* v[k] for a value that is neither null nor undefined: own property of an
\* object (the last one of that name), undefined otherwise
Get(v, k) ==
    IF v.t = "object" /\ \E i \in 1..Len(v.props) : v.props[i].k = k
    THEN LET i == CHOOSE j \in 1..Len(v.props) :
                     /\ v.props[j].k = k
                     /\ \A m \in (j+1)..Len(v.props) : v.props[m].k # k
         IN v.props[i].v
    ELSE Undef

\* reading a property of null or undefined throws a TypeError
Nullish(v) == v.t \in {"null", "undefined"}

-----------------------------------------------------------------------------
(* Decimal numerals *)

Digits == <<"0", "1", "2", "3", "4", "5", "6", "7", "8", "9">>

DigitSet == {Digits[i] : i \in 1..10}

DigitVal(d) == (CHOOSE i \in 1..10 : Digits[i] = d) - 1

RECURSIVE NumToDigits(_)
NumToDigits(n) ==
    IF n < 10 THEN <<Digits[n + 1]>>
    ELSE Append(NumToDigits(n \div 10), Digits[(n % 10) + 1])

RECURSIVE DigitsToNum(_)
DigitsToNum(ds) ==
    IF ds = <<>> THEN 0
    ELSE 10 * DigitsToNum(SubSeq(ds, 1, Len(ds) - 1)) + DigitVal(ds[Len(ds)])

\* String(v) for the values that reach a template literal or new Error(..)
ToStr(v) ==
    CASE v.t = "string" -> v.s
      [] v.t = "number" -> NumToDigits(v.n)
      [] v.t = "boolean" -> IF v.b THEN <<"true">> ELSE <<"false">>
      [] v.t = "null" -> <<"null">>
      [] v.t = "undefined" -> <<"undefined">>
      [] v.t = "array" -> <<"<array>">>
      [] OTHER -> <<"[object Object]">>

-----------------------------------------------------------------------------
(* JSON *)

Q == "\""

RECURSIVE JSONtext(_)
RECURSIVE MembersText(_, _)
RECURSIVE ElemsText(_, _)

\* members with an undefined value are left out
MembersText(props, first) ==
    IF props = <<>> THEN <<>>
    ELSE IF Head(props).v.t = "undefined" THEN MembersText(Tail(props), first)
    ELSE (IF first THEN <<>> ELSE <<",">>)
         \o <<Q>> \o Head(props).k \o <<Q, ":">> \o JSONtext(Head(props).v)
         \o MembersText(Tail(props), FALSE)

\* undefined elements of an array are written as null
ElemsText(items, first) ==
    IF items = <<>> THEN <<>>
    ELSE (IF first THEN <<>> ELSE <<",">>)
         \o (IF Head(items).t = "undefined" THEN <<"null">> ELSE JSONtext(Head(items)))
         \o ElemsText(Tail(items), FALSE)

JSONtext(v) ==
    CASE v.t = "null" -> <<"null">>
      [] v.t = "boolean" -> IF v.b THEN <<"true">> ELSE <<"false">>
      [] v.t = "number" -> NumToDigits(v.n)
      [] v.t = "string" -> <<Q>> \o v.s \o <<Q>>
      [] v.t = "array" -> <<"[">> \o ElemsText(v.items, TRUE) \o <<"]">>
      [] v.t = "object" -> <<"{">> \o MembersText(v.props, TRUE) \o <<"}">>
      [] OTHER -> <<"undefined">>

\* JSON.stringify(v), as the string handed to localStorage.setItem
JSONstringify(v) == Str(JSONtext(v))

ParseFail == [ok |-> FALSE, val |-> Undef, next |-> 0]

ParseOk(v, n) == [ok |-> TRUE, val |-> v, next |-> n]

\* the last index of the run of digits that starts at i
RECURSIVE DigitRunEnd(_, _)
DigitRunEnd(text, i) ==
    IF i < Len(text) /\ text[i + 1] \in DigitSet THEN DigitRunEnd(text, i + 1) ELSE i

RECURSIVE ParseValue(_, _)
RECURSIVE ParseMembers(_, _, _)
RECURSIVE ParseElems(_, _, _)

ParseMembers(text, i, acc) ==
    LET k == ParseValue(text, i) IN
    IF ~k.ok \/ k.val.t # "string" THEN ParseFail
    ELSE IF k.next > Len(text) \/ text[k.next] # ":" THEN ParseFail
    ELSE LET v == ParseValue(text, k.next + 1) IN
         IF ~v.ok \/ v.next > Len(text) THEN ParseFail
         ELSE LET acc2 == Append(acc, Prop(k.val.s, v.val)) IN
              CASE text[v.next] = "}" -> ParseOk(Obj(acc2), v.next + 1)
                [] text[v.next] = "," -> ParseMembers(text, v.next + 1, acc2)
                [] OTHER -> ParseFail

ParseElems(text, i, acc) ==
    LET v == ParseValue(text, i) IN
    IF ~v.ok \/ v.next > Len(text) THEN ParseFail
    ELSE LET acc2 == Append(acc, v.val) IN
         CASE text[v.next] = "]" -> ParseOk(Arr(acc2), v.next + 1)
           [] text[v.next] = "," -> ParseElems(text, v.next + 1, acc2)
           [] OTHER -> ParseFail

ParseValue(text, i) ==
    IF i > Len(text) THEN ParseFail
    ELSE LET c == text[i] IN
         CASE c = "null" -> ParseOk(Null, i + 1)
           [] c = "true" -> ParseOk(Bool(TRUE), i + 1)
           [] c = "false" -> ParseOk(Bool(FALSE), i + 1)
           [] c \in DigitSet ->
                LET j == DigitRunEnd(text, i) IN
                IF c = "0" /\ j > i THEN ParseFail
                ELSE ParseOk(Num(DigitsToNum(SubSeq(text, i, j))), j + 1)
           [] c = Q ->
                IF \E j \in (i+1)..Len(text) : text[j] = Q
                THEN LET j == CHOOSE m \in (i+1)..Len(text) :
                                 /\ text[m] = Q
                                 /\ \A n \in (i+1)..(m-1) : text[n] # Q
                     IN ParseOk(Str(SubSeq(text, i + 1, j - 1)), j + 1)
                ELSE ParseFail
           [] c = "{" ->
                IF i < Len(text) /\ text[i + 1] = "}" THEN ParseOk(Obj(<<>>), i + 2)
                ELSE ParseMembers(text, i + 1, <<>>)
           [] c = "[" ->
                IF i < Len(text) /\ text[i + 1] = "]" THEN ParseOk(Arr(<<>>), i + 2)
                ELSE ParseElems(text, i + 1, <<>>)
           [] OTHER -> ParseFail

\* JSON.parse(s): ok = FALSE stands for the SyntaxError it throws
JSONparse(s) ==
    LET r == ParseValue(s.s, 1) IN
    IF r.ok /\ r.next = Len(s.s) + 1 THEN [ok |-> TRUE, val |-> r.val]
    ELSE [ok |-> FALSE, val |-> Undef]

-----------------------------------------------------------------------------
(* localStorage.  A call that throws (quota exceeded, access denied) is an   *)
(* input of the caller: `f` says whether this call throws.                   *)

TOKEN_KEY == "authToken"
USER_KEY == "authUser"

getItem(st, k) == IF k \in DOMAIN st THEN st[k] ELSE Null

setItem(st, k, v) ==
    [x \in (DOMAIN st) \cup {k} |-> IF x = k THEN Str(ToStr(v)) ELSE st[x]]

removeItem(st, k) == [x \in (DOMAIN st) \ {k} |-> st[x]]

\* the outcome of a call: the storage it leaves, what it returns, and whether
\* it threw to its caller
Outcome(st, ret, threw) == [st |-> st, ret |-> ret, threw |-> threw]

-----------------------------------------------------------------------------
(* utils/auth.ts *)

setAuthTokenUnguarded(st, tok, f) ==
    IF f THEN Outcome(st, Undef, TRUE)
    ELSE Outcome(setItem(st, TOKEN_KEY, tok), Undef, FALSE)

setAuthToken(st, tok, f) ==
    IF f THEN Outcome(st, Undef, FALSE)
    ELSE Outcome(setItem(st, TOKEN_KEY, tok), Undef, FALSE)

getAuthToken(st, f) ==
    IF f THEN Outcome(st, Null, FALSE)
    ELSE Outcome(st, getItem(st, TOKEN_KEY), FALSE)

removeAuthTokenKeepsKey(st, f) == Outcome(st, Undef, FALSE)

removeAuthToken(st, f) ==
    IF f THEN Outcome(st, Undef, FALSE)
    ELSE Outcome(removeItem(st, TOKEN_KEY), Undef, FALSE)

setUserInStorageRaw(st, usr, f) ==
    IF f THEN Outcome(st, Undef, FALSE)
    ELSE Outcome(setItem(st, USER_KEY, usr), Undef, FALSE)

setUserInStorage(st, usr, f) ==
    IF f THEN Outcome(st, Undef, FALSE)
    ELSE Outcome(setItem(st, USER_KEY, JSONstringify(usr)), Undef, FALSE)

removeUserFromStorage(st, f) ==
    IF f THEN Outcome(st, Undef, FALSE)
    ELSE Outcome(removeItem(st, USER_KEY), Undef, FALSE)

\* typeof v === 'object'
IsObjectType(v) == v.t \in {"object", "array", "null"}

\* the basic check of getUserFromStorage
BasicCheck(u) == Truthy(u) /\ IsObjectType(u) /\ Truthy(Get(u, <<"email">>))

getUserFromStorageNoCleanup(st, fGet, fRemove) ==
    IF fGet THEN Outcome(st, Null, FALSE)
    ELSE LET storedUser == getItem(st, USER_KEY) IN
         IF Truthy(storedUser)
         THEN LET p == JSONparse(storedUser) IN
              IF p.ok /\ BasicCheck(p.val) THEN Outcome(st, p.val, FALSE)
              ELSE Outcome(st, Null, FALSE)
         ELSE Outcome(st, Null, FALSE)

getUserFromStorageUnchecked(st, fGet, fRemove) ==
    IF fGet THEN Outcome(removeUserFromStorage(st, fRemove).st, Null, FALSE)
    ELSE LET storedUser == getItem(st, USER_KEY) IN
         IF Truthy(storedUser)
         THEN LET p == JSONparse(storedUser) IN
              IF ~p.ok THEN Outcome(removeUserFromStorage(st, fRemove).st, Null, FALSE)
              ELSE Outcome(st, p.val, FALSE)
         ELSE Outcome(st, Null, FALSE)

\* fGet: getItem throws; fRemove: the removeItem of the clean-up throws
getUserFromStorage(st, fGet, fRemove) ==
    IF fGet THEN Outcome(removeUserFromStorage(st, fRemove).st, Null, FALSE)
    ELSE LET storedUser == getItem(st, USER_KEY) IN
         IF Truthy(storedUser)
         THEN LET p == JSONparse(storedUser) IN
              IF ~p.ok THEN Outcome(removeUserFromStorage(st, fRemove).st, Null, FALSE)
              ELSE IF BasicCheck(p.val) THEN Outcome(st, p.val, FALSE)
              ELSE Outcome(removeUserFromStorage(st, fRemove).st, Null, FALSE)
         ELSE Outcome(st, Null, FALSE)

-----------------------------------------------------------------------------
(* context/AuthContext.tsx *)

\* the check of the stored user in the initialization effect
StoredUserValidNeedsName(u) ==
    /\ Truthy(Get(u, <<"id">>))
    /\ Truthy(Get(u, <<"email">>))
    /\ Truthy(Get(u, <<"patronId">>))
    /\ Truthy(Get(u, <<"first_name">>))

StoredUserValid(u) ==
    /\ Truthy(Get(u, <<"id">>))
    /\ Truthy(Get(u, <<"email">>))
    /\ Truthy(Get(u, <<"patronId">>))

isAuthenticated == Truthy(token) /\ Truthy(user)

\* the three states of the provider
AuthState ==
    IF isLoading THEN "Unknown"
    ELSE IF isAuthenticated THEN "Authenticated" ELSE "Unauthenticated"

\* what the provider renders: its children once the initial check is over
AuthProviderRenderAlways == "children"

AuthProviderRender == IF ~isLoading THEN "children" ELSE "loading"

ProtectedRouteOpen == IF isLoading THEN "checking" ELSE "children"

\* App.tsx: what ProtectedRoute renders from the context value
ProtectedRoute ==
    IF isLoading THEN "checking"
    ELSE IF ~isAuthenticated THEN "redirect" ELSE "children"

\* what is shown for the route /favorites: the element of the route is a
\* child of the provider
FavoritesRoute ==
    IF AuthProviderRender = "loading" THEN "loading" ELSE ProtectedRoute

Mem(st, tok, usr) == [st |-> st, token |-> tok, user |-> usr]

\* removeAuthToken(); removeUserFromStorage(); setTokenState(null); setUserState(null)
ClearAuth(st, fails) ==
    LET a == removeAuthToken(st, "removeToken" \in fails)
        b == removeUserFromStorage(a.st, "removeUser" \in fails)
    IN Mem(b.st, Null, Null)

InitSites == {"getToken", "getUser", "healUser", "removeToken", "removeUser"}

InitEffectKeepsToken(st, fails) ==
    LET t == getAuthToken(st, "getToken" \in fails)
        u == getUserFromStorage(t.st, "getUser" \in fails, "healUser" \in fails)
    IN IF Truthy(t.ret) /\ Truthy(u.ret) /\ StoredUserValid(u.ret)
       THEN Mem(u.st, t.ret, u.ret)
       ELSE Mem(u.st, t.ret, Null)

\* the body of the initialization effect, up to setIsLoading(false)
InitEffect(st, fails) ==
    LET t == getAuthToken(st, "getToken" \in fails)
        u == getUserFromStorage(t.st, "getUser" \in fails, "healUser" \in fails)
    IN IF t.threw THEN ClearAuth(t.st, fails)
       ELSE IF u.threw THEN ClearAuth(u.st, fails)
       ELSE IF Truthy(t.ret) /\ Truthy(u.ret)
            THEN IF StoredUserValid(u.ret) THEN Mem(u.st, t.ret, u.ret)
                 ELSE ClearAuth(u.st, fails)
            ELSE Mem(u.st, Null, Null)

LoginSites == {"setToken", "setUser"}

LoginEffectStopsOnFailure(st, tok, usr, newToken, loggedInUser, fails) ==
    LET a == setAuthToken(st, newToken, "setToken" \in fails)
        b == setUserInStorage(a.st, loggedInUser, "setUser" \in fails)
    IN IF fails # {} THEN Mem(b.st, tok, usr)
       ELSE Mem(b.st, newToken, loggedInUser)

LoginEffect(st, tok, usr, newToken, loggedInUser, fails) ==
    LET a == setAuthToken(st, newToken, "setToken" \in fails)
        b == setUserInStorage(a.st, loggedInUser, "setUser" \in fails)
    IN IF a.threw THEN Mem(a.st, tok, usr)
       ELSE IF b.threw THEN Mem(b.st, tok, usr)
       ELSE Mem(b.st, newToken, loggedInUser)

LogoutSites == {"removeToken", "removeUser"}

LogoutEffectKeepsUser(st, tok, usr, fails) ==
    LET a == removeAuthToken(st, "removeToken" \in fails)
        b == removeUserFromStorage(a.st, "removeUser" \in fails)
    IN Mem(b.st, Null, usr)

LogoutEffect(st, tok, usr, fails) ==
    LET a == removeAuthToken(st, "removeToken" \in fails)
        b == removeUserFromStorage(a.st, "removeUser" \in fails)
    IN IF a.threw THEN Mem(a.st, tok, usr)
       ELSE IF b.threw THEN Mem(b.st, tok, usr)
       ELSE Mem(b.st, Null, Null)

-----------------------------------------------------------------------------
(* components/Login.tsx: the user object handleSubmit builds from the       *)
(* patron of the login response                                             *)

LoggedInUser(patron) ==
    Obj(<< Prop(<<"id">>, Get(patron, <<"patronId">>)),
           Prop(<<"patronId">>, Get(patron, <<"patronId">>)),
           Prop(<<"first_name">>, Get(patron, <<"first_name">>)),
           Prop(<<"last_name">>, Get(patron, <<"last_name">>)),
           Prop(<<"email">>, Get(patron, <<"email">>)) >>)

-----------------------------------------------------------------------------
(* Inputs *)

MaxId == 1

Tokens == {Str(<<>>), W("abc")}

Emails == {Str(<<>>), W("a@b.com")}

Patrons ==
    { Obj(<< Prop(<<"patronId">>, id), Prop(<<"last_name">>, W("Z")),
             Prop(<<"email">>, em) >>) :
        id \in {Num(n) : n \in 0..MaxId},
        em \in Emails }

Users == {LoggedInUser(p) : p \in Patrons}

\* what the profile key may hold when the application starts: any string
StoredTexts ==
    { Str(<<>>),
      Str(<<"{", Q, "id", Q, ":">>),
      Str(<<"OK">>),
      Str(<<"null">>),
      Str(<<"0">>),
      Str(<<Q, "a@b.com", Q>>),
      Str(<<"[", "]">>),
      JSONstringify(Obj(<<Prop(<<"id">>, Num(1))>>)),
      JSONstringify(Obj(<<Prop(<<"email">>, W("a@b.com"))>>)),
      JSONstringify(Obj(<<Prop(<<"id">>, Num(1)), Prop(<<"email">>, W("a@b.com"))>>)),
      JSONstringify(Obj(<<Prop(<<"id">>, Num(1)), Prop(<<"patronId">>, Num(1)),
                          Prop(<<"email">>, W("a@b.com"))>>)),
      JSONstringify(Obj(<<Prop(<<"id">>, Num(0)), Prop(<<"patronId">>, Num(0)),
                          Prop(<<"email">>, W("a@b.com"))>>)),
      JSONstringify(Obj(<<Prop(<<"id">>, Num(1)), Prop(<<"patronId">>, Num(1)),
                          Prop(<<"email">>, Str(<<>>))>>)) }

Storages ==
    { [k \in ks |-> IF k = TOKEN_KEY THEN tk ELSE ut] :
        ks \in SUBSET {TOKEN_KEY, USER_KEY}, tk \in Tokens, ut \in StoredTexts }

-----------------------------------------------------------------------------
(* History: the last operation with the storage it started from, what it  *)
(* returned and the kinds of localStorage call that threw during it; the   *)
(* getUserFromStorage call right before the last operation; the logout     *)
(* right before the last operation; the login a reload may follow          *)

Kind(site) ==
    CASE site \in {"getToken", "getUser"} -> "get"
      [] site \in {"setToken", "setUser"} -> "set"
      [] OTHER -> "remove"

Kinds(fails) == {Kind(x) : x \in fails}

Op(name, pre, ret, threw, fails) ==
    [op |-> name, pre |-> pre, ret |-> ret, threw |-> threw, fails |-> fails]

NoOp == Op("none", <<>>, Undef, FALSE, {})

NoLogin == [on |-> FALSE]

NoRequest == [phase |-> "idle"]

\* react-router: the location, the `from` of its state, and the code that
\* navigated last
NoFrom == "undefined"

Location(path, from, by) == [path |-> path, from |-> from, by |-> by]

\* components/Login.tsx: the state of the form (loading, error)
IdleForm == [loading |-> FALSE, error |-> Null, pending |-> FALSE,
             at |-> Location("/login", NoFrom, "none")]

NoDebounce == [mounted |-> FALSE]

NoSearch == [mounted |-> FALSE]

NoForm == [mounted |-> FALSE]

AuthInit ==
    /\ storage \in Storages
    /\ token = Null
    /\ user = Null
    /\ isLoading = TRUE
    /\ last = NoOp
    /\ prevRead = NoOp
    /\ prevLogout = NoOp
    /\ lg = NoLogin
    /\ http = NoRequest
    /\ nav = Location("/", NoFrom, "none")
    /\ loginForm = IdleForm
    /\ deb = NoDebounce
    /\ search = NoSearch
    /\ form = NoForm

InitializeRerun ==
    /\ \E fails \in SUBSET InitSites :
         LET e == InitEffect(storage, fails) IN
         /\ storage' = e.st
         /\ token' = e.token
         /\ user' = e.user
         /\ last' = Op("initialize", storage, Undef, FALSE, Kinds(fails))
    /\ isLoading' = FALSE
    /\ prevLogout' = NoOp
    /\ UNCHANGED <<prevRead, lg, http, nav, loginForm, deb, search, form>>

InitializeWithoutFinally ==
    /\ isLoading
    /\ \E fails \in SUBSET InitSites :
         LET e == InitEffect(storage, fails) IN
         /\ storage' = e.st
         /\ token' = e.token
         /\ user' = e.user
         /\ last' = Op("initialize", storage, Undef, FALSE, Kinds(fails))
         /\ isLoading' = (fails # {})
    /\ prevLogout' = NoOp
    /\ UNCHANGED <<prevRead, lg, http, nav, loginForm, deb, search, form>>

\* the initialization effect of AuthProvider, run on mount; the state updates
\* of one effect or handler are committed together (createRoot batches them),
\* so consumers see each action as one step
Initialize ==
    /\ isLoading
    /\ \E fails \in SUBSET InitSites :
         LET e == InitEffect(storage, fails) IN
         /\ storage' = e.st
         /\ token' = e.token
         /\ user' = e.user
         /\ last' = Op("initialize", storage, Undef, FALSE, Kinds(fails))
    /\ isLoading' = FALSE
    /\ prevLogout' = NoOp
    /\ UNCHANGED <<prevRead, lg, http, nav, loginForm, deb, search, form>>

\* login(newToken, loggedInUser), called by a child of the provider
Login ==
    /\ ~isLoading
    /\ \E newToken \in Tokens, loggedInUser \in Users, fails \in SUBSET LoginSites :
         LET e == LoginEffect(storage, token, user, newToken, loggedInUser, fails) IN
         /\ storage' = e.st
         /\ token' = e.token
         /\ user' = e.user
         /\ last' = Op("login", <<>>, Undef, FALSE, Kinds(fails))
         /\ lg' = [on |-> TRUE, token |-> newToken, user |-> loggedInUser,
                   wrote |-> fails = {}]
    /\ prevLogout' = NoOp
    /\ nav' = Location("/favorites", NoFrom, "login")
    /\ UNCHANGED <<isLoading, prevRead, http, loginForm, deb, search, form>>

Logout ==
    /\ ~isLoading
    /\ \E fails \in SUBSET LogoutSites :
         LET e == LogoutEffect(storage, token, user, fails) IN
         /\ storage' = e.st
         /\ token' = e.token
         /\ user' = e.user
         /\ last' = Op("logout", storage, Undef, FALSE, Kinds(fails))
    /\ lg' = NoLogin
    /\ prevLogout' = IF last.op = "logout" THEN last ELSE NoOp
    /\ nav' = Location("/login", NoFrom, "logout")
    /\ UNCHANGED <<isLoading, prevRead, http, loginForm, deb, search, form>>

\* the page is loaded again: the provider is mounted afresh over the same storage
Reload ==
    /\ ~isLoading
    /\ token' = Null
    /\ user' = Null
    /\ isLoading' = TRUE
    /\ last' = Op("reload", <<>>, Undef, FALSE, {})
    /\ lg' = IF last.op = "login" THEN lg ELSE NoLogin
    /\ prevLogout' = NoOp
    /\ UNCHANGED <<storage, prevRead, http, nav, loginForm, deb, search, form>>

-----------------------------------------------------------------------------
(* The session store called directly *)

\* what a direct call leaves of the history and of the provider's state
StoreFrame ==
    /\ prevRead' = IF last.op = "getUserFromStorage" THEN last ELSE NoOp
    /\ UNCHANGED <<token, user, isLoading, prevLogout, lg, http, nav, loginForm, deb, search, form>>

Failed(f, kind) == IF f THEN {kind} ELSE {}

SetAuthToken ==
    /\ \E tok \in Tokens, f \in BOOLEAN :
         LET r == setAuthToken(storage, tok, f) IN
         /\ storage' = r.st
         /\ last' = Op("setAuthToken", storage, r.ret, r.threw, Failed(f, "set"))
    /\ StoreFrame

GetAuthToken ==
    /\ \E f \in BOOLEAN :
         LET r == getAuthToken(storage, f) IN
         /\ storage' = r.st
         /\ last' = Op("getAuthToken", storage, r.ret, r.threw, Failed(f, "get"))
    /\ StoreFrame

RemoveAuthToken ==
    /\ \E f \in BOOLEAN :
         LET r == removeAuthToken(storage, f) IN
         /\ storage' = r.st
         /\ last' = Op("removeAuthToken", storage, r.ret, r.threw, Failed(f, "remove"))
    /\ StoreFrame

SetUserInStorage ==
    /\ \E usr \in Users, f \in BOOLEAN :
         LET r == setUserInStorage(storage, usr, f) IN
         /\ storage' = r.st
         /\ last' = Op("setUserInStorage", storage, r.ret, r.threw, Failed(f, "set"))
    /\ StoreFrame

GetUserFromStorage ==
    /\ \E fGet \in BOOLEAN, fRemove \in BOOLEAN :
         LET r == getUserFromStorage(storage, fGet, fRemove) IN
         /\ storage' = r.st
         /\ last' = Op("getUserFromStorage", storage, r.ret, r.threw,
                       Failed(fGet, "get") \cup Failed(fRemove, "remove"))
    /\ StoreFrame

RemoveUserFromStorage ==
    /\ \E f \in BOOLEAN :
         LET r == removeUserFromStorage(storage, f) IN
         /\ storage' = r.st
         /\ last' = Op("removeUserFromStorage", storage, r.ret, r.threw,
                       Failed(f, "remove"))
    /\ StoreFrame

Next == Initialize \/ Login \/ Logout \/ Reload

Spec == AuthInit /\ [][Next]_vars

\* The provider mounted over any storage, and mounted again on every page
\* load.
LiveNext == Initialize \/ Reload

\* React runs the effect of a mounted provider, so Initialize is not put off
\* forever: WF_vars(Initialize), with ENABLED <<Initialize>>_vars written out
\* as isLoading (the effect is defined for every storage and every failure,
\* and it always changes isLoading)
EffectRuns == []<>(~isLoading) \/ []<><<Initialize>>_vars

SpecLive == AuthInit /\ [][LiveNext]_vars /\ EffectRuns

StoreInit ==
    /\ storage \in Storages
    /\ token = Null
    /\ user = Null
    /\ isLoading = TRUE
    /\ last = NoOp
    /\ prevRead = NoOp
    /\ prevLogout = NoOp
    /\ lg = NoLogin
    /\ http = NoRequest
    /\ nav = Location("/", NoFrom, "none")
    /\ loginForm = IdleForm
    /\ deb = NoDebounce
    /\ search = NoSearch
    /\ form = NoForm

StoreNext ==
    \/ SetAuthToken
    \/ GetAuthToken
    \/ RemoveAuthToken
    \/ SetUserInStorage
    \/ GetUserFromStorage
    \/ RemoveUserFromStorage

SpecStore == StoreInit /\ [][StoreNext]_vars

-----------------------------------------------------------------------------
(* utils/api.ts: createApiError and handleRequest *)

\* new Error(message).message: String(message), empty for undefined
ErrorMessage(message) == IF message.t = "undefined" THEN Str(<<>>) ELSE Str(ToStr(message))

createApiError(message, status, details, responseData) ==
    [t |-> "error",
     message |-> ErrorMessage(message),
     error |-> Bool(TRUE),
     errorString |-> message,
     status |-> status,
     details |-> details,
     isApiError |-> Bool(TRUE),
     apiResponse |-> responseData]

\* an error thrown by the platform: fetch() or response.text() rejecting, or
\* a property read of null
PlatformError(name, message) ==
    [t |-> "error",
     name |-> name,
     message |-> Str(<<message>>),
     stack |-> Str(<<name, ": ", message>>),
     isApiError |-> Undef]

Return(v) == [kind |-> "return", val |-> v]
Throw(e) == [kind |-> "throw", err |-> e]
Resolve(v) == [kind |-> "resolve", val |-> v]
Reject(e) == [kind |-> "reject", err |-> e]

\* response.ok
ResponseOk(status) == status >= 200 /\ status <= 299

\* the outcome of the transport for one request
Transport(fetchFails, status, statusText, textFails, body) ==
    [fetchFails |-> fetchFails, status |-> status, statusText |-> statusText,
     textFails |-> textFails, body |-> body]

\* response.status === 204
NoContentNever(status) == FALSE

NoContent(status) == status = 204

\* the error of a failing status whose body is no JSON
UnparsedErrorPlain(status, statusText, responseText) ==
    createApiError(Str(<<"Request failed">>), Undef, Undef, Undef)

UnparsedError(status, statusText, responseText) ==
    createApiError(
        Str(<<"Request failed: ">> \o ToStr(status) \o <<" ">>
            \o OrElse(statusText, responseText).s),
        status, Undef, Undef)

\* responseData.error === true
ErrorFlaggedOnFailureOnly(responseData, status) ==
    Get(responseData, <<"error">>) = Bool(TRUE) /\ ~(status.n >= 200 /\ status.n <= 299)

ErrorFlagged(responseData, status) == Get(responseData, <<"error">>) = Bool(TRUE)

\* the error of a body that carries the error flag
FlaggedError(responseData, status) ==
    createApiError(
        OrElse(Get(responseData, <<"errorString">>),
               Str(<<"API Error: ">> \o ToStr(status))),
        status, Get(responseData, <<"details">>), responseData)

\* the error of a failing status whose body carries no error flag
UnflaggedError(responseData, status) ==
    createApiError(
        OrElse(Get(responseData, <<"message">>),
               OrElse(Get(responseData, <<"errorString">>),
                      Str(<<"Request failed: ">> \o ToStr(status)))),
        status, Get(responseData, <<"details">>), responseData)

\* the body of the try block of handleRequest
TryRequest(out) ==
    IF out.fetchFails THEN Throw(PlatformError("TypeError", "Failed to fetch"))
    ELSE IF NoContent(out.status) THEN Return(Obj(<<>>))
    ELSE IF out.textFails THEN Throw(PlatformError("TypeError", "network error"))
    ELSE LET responseText == out.body
             p == JSONparse(responseText)
             responseData == p.val
             status == Num(out.status)
         IN IF ~p.ok
            THEN IF ~ResponseOk(out.status)
                 THEN Throw(UnparsedError(status, out.statusText, responseText))
                 ELSE Return(responseText)
            ELSE IF Nullish(responseData)
                 THEN Throw(PlatformError("TypeError", "Cannot read properties of null"))
            ELSE IF ErrorFlagged(responseData, status)
                 THEN Throw(FlaggedError(responseData, status))
            ELSE IF ~ResponseOk(out.status)
                 THEN Throw(UnflaggedError(responseData, status))
            ELSE Return(responseData)

CatchRequestRethrows(error) == Reject(error)

\* the catch block of handleRequest
CatchRequest(error) ==
    IF Truthy(error.isApiError) THEN Reject(error)
    ELSE Reject(createApiError(
             OrElse(error.message,
                    Str(<<"An unexpected network or processing error occurred.">>)),
             Undef, error.stack, Undef))

handleRequest(out) ==
    LET r == TryRequest(out) IN
    IF r.kind = "return" THEN Resolve(r.val) ELSE CatchRequest(r.err)

-----------------------------------------------------------------------------
(* Responses of the remote API *)

Statuses == {200, 204, 400, 500}

StatusTexts == {Str(<<>>), Str(<<"Reason">>)}

JsonBodies ==
    { Null, Bool(TRUE), Num(5), W("pong"), Arr(<<>>), Arr(<<Num(1), Null>>), Obj(<<>>),
      Obj(<<Prop(<<"error">>, Bool(TRUE)), Prop(<<"errorString">>, W("Bad")),
            Prop(<<"details">>, Arr(<<W("email")>>))>>),
      Obj(<<Prop(<<"error">>, Bool(TRUE))>>),
      Obj(<<Prop(<<"error">>, Bool(TRUE)), Prop(<<"errorString">>, Str(<<>>))>>),
      Obj(<<Prop(<<"error">>, Bool(FALSE)), Prop(<<"songs">>, Arr(<<>>))>>),
      Obj(<<Prop(<<"error">>, W("true"))>>),
      Obj(<<Prop(<<"message">>, W("Not found"))>>),
      Obj(<<Prop(<<"errorString">>, W("E")), Prop(<<"details">>, Num(1))>>),
      Obj(<<Prop(<<"token">>, W("abc")),
            Prop(<<"patron">>, Obj(<<Prop(<<"patronId">>, Num(1))>>))>>) }

Bodies ==
    {Str(<<>>), Str(<<"OK">>), Str(<<"<html>">>), Str(<<"{", Q, "error", Q, ":">>)}
    \cup {JSONstringify(v) : v \in JsonBodies}

Outcomes ==
    {Transport(TRUE, 0, Str(<<>>), FALSE, Str(<<>>))}
    \cup {Transport(FALSE, st, tx, FALSE, b) : st \in Statuses, tx \in StatusTexts, b \in Bodies}
    \cup {Transport(FALSE, st, tx, TRUE, Str(<<>>)) : st \in Statuses, tx \in StatusTexts}

\* request headers: a function of the header names
NoHeaders == <<>>

Header(name, value) == [k \in {name} |-> value]

\* { ...a, ...b }
Spread(a, b) ==
    [k \in DOMAIN a \cup DOMAIN b |-> IF k \in DOMAIN b THEN b[k] ELSE a[k]]

defaultHeaders ==
    Spread(Header("Content-Type", Str(<<"application/json">>)),
           Header("Accept", Str(<<"application/json">>)))

\* config of handleRequest: the headers of the options over the defaults
Config(options) ==
    [method |-> options.method, headers |-> Spread(defaultHeaders, options.headers)]

getAuthHeadersRawToken(tok) ==
    IF ~Truthy(tok) THEN NoHeaders ELSE Header("Authorization", tok)

getAuthHeaders(tok) ==
    IF ~Truthy(tok) THEN NoHeaders
    ELSE Header("Authorization", Str(<<"Bearer ">> \o tok.s))

\* the endpoints that take the token of the session
AuthOps == {"getFavoriteSongs", "addSongToFavorites", "removeSongFromFavorites"}

\* the calls of the endpoints: a public one without options, the health
\* check with its own Accept header, and the three that take a token
ApiCalls ==
    {[op |-> o, token |-> Undef] : o \in {"searchSongs", "getHealth"}}
    \cup {[op |-> o, token |-> t] : o \in AuthOps, t \in Tokens}

\* if (!token) throw createApiError("Authentication token is required.", 401)
TokenRequired(call) == call.op \in AuthOps /\ ~Truthy(call.token)

TokenRequiredError ==
    createApiError(Str(<<"Authentication token is required.">>), Num(401), Undef, Undef)

\* the options an endpoint hands to handleRequest
Options(call) ==
    CASE call.op = "searchSongs" ->
           [method |-> Undef, headers |-> NoHeaders]
      [] call.op = "getHealth" ->
           [method |-> Undef,
            headers |-> Header("Accept", Str(<<"application/json, text/plain, */*">>))]
      [] call.op = "getFavoriteSongs" ->
           [method |-> Undef, headers |-> getAuthHeaders(call.token)]
      [] call.op = "addSongToFavorites" ->
           [method |-> Str(<<"POST">>), headers |-> getAuthHeaders(call.token)]
      [] OTHER ->
           [method |-> Str(<<"DELETE">>), headers |-> getAuthHeaders(call.token)]

HttpInit ==
    /\ storage = <<>>
    /\ token = Null
    /\ user = Null
    /\ isLoading = TRUE
    /\ last = NoOp
    /\ prevRead = NoOp
    /\ prevLogout = NoOp
    /\ lg = NoLogin
    /\ http = NoRequest
    /\ nav = Location("/", NoFrom, "none")
    /\ loginForm = IdleForm
    /\ deb = NoDebounce
    /\ search = NoSearch
    /\ form = NoForm

\* an endpoint that takes a token is called without one: it rejects before
\* handleRequest is reached
RefuseCall ==
    /\ http.phase # "pending"
    /\ \E call \in ApiCalls :
         /\ TokenRequired(call)
         /\ http' = [phase |-> "refused", call |-> call, fetches |-> 0,
                     res |-> Reject(TokenRequiredError)]
    /\ UNCHANGED <<storage, token, user, isLoading, last, prevRead, prevLogout, lg,
                 nav, loginForm, deb, search, form>>

\* an endpoint calls handleRequest: fetch(url, config) is in flight
IssueRequest ==
    /\ http.phase # "pending"
    /\ \E call \in ApiCalls :
         /\ ~TokenRequired(call)
         /\ http' = [phase |-> "pending", call |-> call,
                     req |-> Config(Options(call)), fetches |-> 1]
    /\ UNCHANGED <<storage, token, user, isLoading, last, prevRead, prevLogout, lg,
                 nav, loginForm, deb, search, form>>

SettleRequestRetries ==
    /\ http.phase = "pending"
    /\ \E out \in Outcomes :
         http' = IF out.fetchFails /\ http.fetches = 1
                 THEN [http EXCEPT !.fetches = @ + 1]
                 ELSE [phase |-> "settled", call |-> http.call, req |-> http.req,
                       fetches |-> http.fetches, out |-> out, res |-> handleRequest(out)]
    /\ UNCHANGED <<storage, token, user, isLoading, last, prevRead, prevLogout, lg,
                 nav, loginForm, deb, search, form>>

\* the transport answers or fails, and the promise of handleRequest settles
SettleRequest ==
    /\ http.phase = "pending"
    /\ \E out \in Outcomes :
         http' = [phase |-> "settled", call |-> http.call, req |-> http.req,
                  fetches |-> http.fetches, out |-> out, res |-> handleRequest(out)]
    /\ UNCHANGED <<storage, token, user, isLoading, last, prevRead, prevLogout, lg,
                 nav, loginForm, deb, search, form>>

HttpNext == RefuseCall \/ IssueRequest \/ SettleRequest

SpecHttp == HttpInit /\ [][HttpNext]_vars

-----------------------------------------------------------------------------
(* components/Login.tsx with the routes of App.tsx: the login form, the     *)
(* navigations, and the continuation of handleSubmit after its await        *)

Paths == {"/login", "/favorites"}

\* location.state?.from?.pathname || '/favorites'
From(loc) == IF loc.from # NoFrom THEN loc.from ELSE "/favorites"

\* what loginUser resolves with: the login response, or a body without patron
LoginResponses ==
    {Obj(<<Prop(<<"token">>, t), Prop(<<"patron">>, p)>>) :
        t \in Tokens,
        p \in {q \in Patrons : Get(q, <<"patronId">>) \in {Num(0), Num(1)}
                                 /\ Truthy(Get(q, <<"email">>))}}
    \cup {Obj(<<Prop(<<"message">>, W("ok"))>>)}

\* what loginUser rejects with
LoginErrors ==
    { createApiError(W("Invalid credentials"), Num(401), Undef, Undef),
      createApiError(Str(<<"Failed to fetch">>), Undef, Str(<<"TypeError">>), Undef) }

\* handleSubmit up to the await
HandleSubmitStart(loc) ==
    [loading |-> TRUE, error |-> Null, pending |-> TRUE, at |-> loc]

HandleSubmitNavigateFirst(f) == Location("/favorites", NoFrom, "login")

\* navigate(from, { replace: true }), after login() has navigated to /favorites
HandleSubmitNavigate(f) == Location(From(f.at), NoFrom, "Login.handleSubmit")

HandleSubmitCatchKeepsLoading(f, errorString) ==
    [f EXCEPT !.pending = FALSE]

\* the catch block of handleSubmit
HandleSubmitCatch(f, errorString) ==
    [f EXCEPT !.error = OrElse(errorString,
                               Str(<<"Login failed. Please check your credentials.">>)),
              !.loading = FALSE, !.pending = FALSE]

\* the visitor arrives with no session stored, or with one stored by login()
LoginStorages ==
    {<<>>} \cup
    { [k \in {TOKEN_KEY, USER_KEY} |->
         IF k = TOKEN_KEY THEN W("abc")
         ELSE JSONstringify(LoggedInUser(p))] :
        p \in {q \in Patrons : Truthy(Get(q, <<"patronId">>)) /\ Truthy(Get(q, <<"email">>))} }

LoginInit ==
    /\ storage \in LoginStorages
    /\ token = Null
    /\ user = Null
    /\ isLoading = TRUE
    /\ last = NoOp
    /\ prevRead = NoOp
    /\ prevLogout = NoOp
    /\ lg = NoLogin
    /\ http = NoRequest
    /\ nav \in {Location(p, NoFrom, "none") : p \in {"/", "/favorites"}}
    /\ loginForm = IdleForm
    /\ deb = NoDebounce
    /\ search = NoSearch
    /\ form = NoForm

\* the user follows a link
Visit ==
    /\ ~isLoading
    /\ \E p \in Paths \ {nav.path} : nav' = Location(p, NoFrom, "link")
    /\ last' = Op("navigate", <<>>, Undef, FALSE, {})
    /\ UNCHANGED <<storage, token, user, isLoading, prevRead, prevLogout, lg, http,
                   loginForm, deb, search, form>>

\* <Navigate> of ProtectedRoute and of the route "/"
Redirect ==
    /\ ~isLoading
    /\ \/ /\ nav.path = "/favorites"
          /\ ProtectedRoute = "redirect"
          /\ nav' = Location("/login", "/favorites", "ProtectedRoute")
       \/ /\ nav.path = "/"
          /\ nav' = Location(IF isAuthenticated THEN "/favorites" ELSE "/request",
                             NoFrom, "App")
    /\ last' = Op("navigate", <<>>, Undef, FALSE, {})
    /\ UNCHANGED <<storage, token, user, isLoading, prevRead, prevLogout, lg, http,
                   loginForm, deb, search, form>>

\* the form is submitted: handleSubmit runs up to await loginUser(...)
SubmitLogin ==
    /\ ~isLoading
    /\ nav.path = "/login"
    /\ ~loginForm.pending
    /\ loginForm' = HandleSubmitStart(nav)
    /\ UNCHANGED <<storage, token, user, isLoading, last, prevRead, prevLogout, lg, http,
                   nav, deb, search, form>>

\* loginUser resolves: the user is built, login() is called and handleSubmit
\* navigates; a response without patron throws into the catch block
LoginResolves ==
    /\ loginForm.pending
    /\ \E response \in LoginResponses, fails \in SUBSET LoginSites :
         IF Nullish(Get(response, <<"patron">>))
         THEN /\ loginForm' = HandleSubmitCatch(loginForm, Undef)
              /\ last' = Op("loginThrew", <<>>, Undef, FALSE, {})
              /\ UNCHANGED <<storage, token, user, lg, nav>>
         ELSE LET newToken == Get(response, <<"token">>)
                  loggedInUser == LoggedInUser(Get(response, <<"patron">>))
                  e == LoginEffect(storage, token, user, newToken, loggedInUser, fails)
              IN /\ storage' = e.st
                 /\ token' = e.token
                 /\ user' = e.user
                 /\ last' = Op("handleSubmit", <<>>, Undef, FALSE, Kinds(fails))
                 /\ lg' = [on |-> TRUE, token |-> newToken, user |-> loggedInUser,
                           wrote |-> fails = {}]
                 /\ nav' = HandleSubmitNavigate(loginForm)
                 /\ loginForm' = [loginForm EXCEPT !.pending = FALSE]
    /\ UNCHANGED <<isLoading, prevRead, prevLogout, http, deb, search, form>>

\* loginUser rejects: the catch block of handleSubmit
LoginRejects ==
    /\ loginForm.pending
    /\ \E err \in LoginErrors :
         loginForm' = HandleSubmitCatch(loginForm, err.errorString)
    /\ last' = Op("loginRejected", <<>>, Undef, FALSE, {})
    /\ UNCHANGED <<storage, token, user, isLoading, prevRead, prevLogout, lg, http,
                   nav, deb, search, form>>

LoginNext ==
    \/ Initialize
    \/ Visit
    \/ Redirect
    \/ SubmitLogin
    \/ LoginResolves
    \/ LoginRejects
    \/ Logout

SpecLogin == LoginInit /\ [][LoginNext]_vars

-----------------------------------------------------------------------------
(* hooks/useDebounce.ts.  Time is counted in ticks; the delay of the hook   *)
(* is Delay ticks.  `age` counts the ticks the input has kept its value,    *)
(* `changes` the changes of the input.                                      *)

Delay == 2

MaxChanges == 3

Queries == {Str(<<>>), Str(<<" ">>), W("a"), W("b")}

NoTimer == [armed |-> FALSE]

\* setTimeout(() => setDebouncedValue(value), delay)
Timer(value) == [armed |-> TRUE, value |-> value, left |-> Delay]

\* the hook after its first render and effect
DebMount(value) ==
    [mounted |-> TRUE, value |-> value, debouncedValue |-> value,
     timer |-> Timer(value), age |-> 0, changes |-> 0]

DebSetKeepsTimer(d, v) ==
    [d EXCEPT !.value = v, !.age = 0, !.changes = @ + 1]

\* the hook is rendered with a new value: the cleanup of the effect clears
\* the timer and the effect sets a new one
DebSet(d, v) ==
    [d EXCEPT !.value = v, !.timer = Timer(v), !.age = 0, !.changes = @ + 1]

\* one tick of time
DebTick(d) ==
    [d EXCEPT !.age = IF @ < Delay THEN @ + 1 ELSE @,
              !.timer = IF @.armed /\ @.left > 0 THEN [@ EXCEPT !.left = @ - 1] ELSE @]

\* the timer is due
DebDue(d) == d.timer.armed /\ d.timer.left = 0

\* the callback of the timer
DebFire(d) == [d EXCEPT !.debouncedValue = d.timer.value, !.timer = NoTimer]

DebInit ==
    /\ storage = <<>>
    /\ token = Null
    /\ user = Null
    /\ isLoading = TRUE
    /\ last = NoOp
    /\ prevRead = NoOp
    /\ prevLogout = NoOp
    /\ lg = NoLogin
    /\ http = NoRequest
    /\ nav = Location("/", NoFrom, "none")
    /\ loginForm = IdleForm
    /\ deb \in {DebMount(v) : v \in Queries}
    /\ search = NoSearch
    /\ form = NoForm

DebFrame ==
    UNCHANGED <<storage, token, user, isLoading, last, prevRead, prevLogout, lg, http,
                nav, loginForm, search, form>>

\* the component that uses the hook is rendered with another value
SetValue ==
    /\ deb.changes < MaxChanges
    /\ \E v \in Queries \ {deb.value} : deb' = DebSet(deb, v)
    /\ DebFrame

Tick ==
    /\ deb' = DebTick(deb)
    /\ DebFrame

TimerFires ==
    /\ DebDue(deb)
    /\ deb' = DebFire(deb)
    /\ DebFrame

DebNext == SetValue \/ Tick \/ TimerFires

\* time passes, and a timer that is due runs its callback
SpecDebounce ==
    DebInit /\ [][DebNext]_vars /\ WF_vars(Tick) /\ WF_vars(TimerFires)

-----------------------------------------------------------------------------
(* components/SongSearch.tsx: the query, its debounced copy, the searches   *)
(* in flight and what is displayed.  `issued` numbers the searches,         *)
(* `delivered` lists the ones whose response arrived, in order of arrival.  *)

\* s.trim(): blanks are lexemes of their own
RECURSIVE TrimLeft(_)
TrimLeft(s) == IF s # <<>> /\ Head(s) = " " THEN TrimLeft(Tail(s)) ELSE s

RECURSIVE TrimRight(_)
TrimRight(s) ==
    IF s # <<>> /\ s[Len(s)] = " " THEN TrimRight(SubSeq(s, 1, Len(s) - 1)) ELSE s

Trim(v) == Str(TrimRight(TrimLeft(v.s)))

\* the answers of the song search to a query
Song(q) == Obj(<<Prop(<<"title">>, q)>>)

SearchAnswers(q) ==
    { Resolve(Obj(<<Prop(<<"songs">>, Arr(<<Song(q)>>)), Prop(<<"totalItems">>, Num(1))>>)),
      Resolve(Obj(<<Prop(<<"songs">>, Arr(<<>>)), Prop(<<"totalItems">>, Num(0))>>)),
      Resolve(Obj(<<>>)),
      Reject(createApiError(W("Search failed"), Num(500), Undef, Undef)) }

\* performSearch up to the await: nothing to search for, or a search in flight
PerformSearch(sr, searchTerm) ==
    IF ~Truthy(Trim(searchTerm))
    THEN [sr EXCEPT !.results = Arr(<<>>), !.totalItems = Num(0), !.error = Null,
                    !.loading = FALSE]
    ELSE [sr EXCEPT !.loading = TRUE, !.error = Null,
                    !.issued = @ + 1,
                    !.inflight = @ \cup {[id |-> sr.issued + 1, q |-> searchTerm]}]

\* the effect of SongSearch: the URL follows the debounced query and the
\* search is performed
SearchEffect(sr, debouncedQuery) ==
    PerformSearch([sr EXCEPT !.params = IF Truthy(Trim(debouncedQuery))
                                         THEN debouncedQuery ELSE Undef],
                  debouncedQuery)

SettleSearchIfCurrent(sr, r, ans) ==
    LET left == [sr EXCEPT !.inflight = @ \ {r}, !.delivered = Append(@, r.id),
                           !.arrived = [q |-> r.q, ans |-> ans]]
    IN IF r.id # sr.issued THEN left
       ELSE IF ans.kind = "resolve"
       THEN [left EXCEPT !.results = OrElse(Get(ans.val, <<"songs">>), Arr(<<>>)),
                         !.totalItems = OrElse(Get(ans.val, <<"totalItems">>), Num(0)),
                         !.loading = FALSE]
       ELSE [left EXCEPT !.results = Arr(<<>>), !.totalItems = Num(0), !.loading = FALSE]

\* performSearch after the await: try, catch and finally
SettleSearch(sr, r, ans) ==
    LET left == [sr EXCEPT !.inflight = @ \ {r}, !.delivered = Append(@, r.id),
                           !.arrived = [q |-> r.q, ans |-> ans]]
    IN IF ans.kind = "resolve"
       THEN [left EXCEPT !.results = OrElse(Get(ans.val, <<"songs">>), Arr(<<>>)),
                         !.totalItems = OrElse(Get(ans.val, <<"totalItems">>), Num(0)),
                         !.error = IF Get(ans.val, <<"totalItems">>) = Num(0)
                                   THEN Str(<<"No songs found matching your search.">>)
                                   ELSE @,
                         !.loading = FALSE]
       ELSE [left EXCEPT !.error = OrElse(ans.err.errorString,
                                      OrElse(ans.err.message,
                                             Str(<<"Failed to search songs.">>))),
                         !.results = Arr(<<>>), !.totalItems = Num(0),
                         !.loading = FALSE]

\* SongSearch after its first render and its effects, for the q of the URL
SearchMount(q) ==
    SearchEffect([mounted |-> TRUE, params |-> Undef, results |-> Arr(<<>>),
                  totalItems |-> Num(0), loading |-> FALSE, error |-> Null,
                  inflight |-> {}, issued |-> 0, delivered |-> <<>>,
                  arrived |-> [q |-> Undef, ans |-> Undef]], q)

SearchInit ==
    /\ storage = <<>>
    /\ token = Null
    /\ user = Null
    /\ isLoading = TRUE
    /\ last = NoOp
    /\ prevRead = NoOp
    /\ prevLogout = NoOp
    /\ lg = NoLogin
    /\ http = NoRequest
    /\ nav = Location("/search", NoFrom, "none")
    /\ loginForm = IdleForm
    /\ \E q \in Queries : deb = DebMount(q) /\ search = SearchMount(q)
    /\ form = NoForm

SearchFrame ==
    UNCHANGED <<storage, token, user, isLoading, last, prevRead, prevLogout, lg, http,
                nav, loginForm, form>>

\* handleInputChange
TypeQuery ==
    /\ deb.changes < MaxChanges
    /\ \E v \in Queries \ {deb.value} : deb' = DebSet(deb, v)
    /\ UNCHANGED search
    /\ SearchFrame

SearchTick ==
    /\ deb' = DebTick(deb)
    /\ UNCHANGED search
    /\ SearchFrame

\* the timer of the hook fires; a new debounced query runs the effect
QueryDebounced ==
    /\ DebDue(deb)
    /\ deb' = DebFire(deb)
    /\ search' = IF deb'.debouncedValue # deb.debouncedValue
                 THEN SearchEffect(search, deb'.debouncedValue)
                 ELSE search
    /\ SearchFrame

\* the response of a search in flight arrives
SearchResponds ==
    /\ \E r \in search.inflight : \E ans \in SearchAnswers(r.q) :
         search' = SettleSearch(search, r, ans)
    /\ UNCHANGED deb
    /\ SearchFrame

SearchNext == TypeQuery \/ SearchTick \/ QueryDebounced \/ SearchResponds

SpecSearch == SearchInit /\ [][SearchNext]_vars

-----------------------------------------------------------------------------
(* components/RequestForm.tsx: the selected venue, its key in localStorage, *)
(* and the submission of a request                                          *)

LOCALSTORAGE_VENUE_ID_KEY == "karaokeApp_selectedVenueId"
LOCALSTORAGE_SINGER_NAME_KEY == "karaokeApp_singerName"

MaxVenueId == 2

NaN == [t |-> "number", nan |-> TRUE]

\* parseInt(text, 10) of an unsigned text: the leading run of digits
parseInt(v) ==
    LET text == TrimLeft(v.s)
        e == DigitRunEnd(text, 0)
    IN IF e = 0 THEN NaN ELSE Num(DigitsToNum(SubSeq(text, 1, e)))

Venue(id, accepting) ==
    Obj(<<Prop(<<"venue_id">>, Num(id)), Prop(<<"name">>, W("V")),
          Prop(<<"accepting">>, Bool(accepting))>>)

Venues == {Venue(i, b) : i \in 1..MaxVenueId, b \in BOOLEAN}

\* what the venues endpoint may list: each venue absent, open or closed
VenueLists ==
    { Arr(SelectSeq([i \in 1..MaxVenueId |-> Venue(i, c[i] = "open")],
                    LAMBDA v : c[Get(v, <<"venue_id">>).n] # "absent")) :
        c \in [1..MaxVenueId -> {"absent", "open", "closed"}] }

\* what getVenues resolves with
VenueResponses ==
    {Obj(<<Prop(<<"venues">>, l)>>) : l \in VenueLists} \cup {Obj(<<>>)}

\* venues.find(v => v.venue_id === id)
FindVenue(venues, id) ==
    LET hits == {i \in 1..Len(venues.items) :
                   Get(venues.items[i], <<"venue_id">>) = id}
    IN IF hits = {} THEN Undef
       ELSE venues.items[CHOOSE i \in hits : \A j \in hits : i <= j]

Accepting(venue) == Truthy(Get(venue, <<"accepting">>))

SingerNames == {Str(<<>>), Str(<<" ">>), W("Al")}

Songs == {Obj(<<Prop(<<"artist">>, W("A")), Prop(<<"title">>, W("T"))>>)}

\* the effect that persists the selected venue
PersistVenue(st, selectedVenue) ==
    IF Truthy(selectedVenue)
    THEN setItem(st, LOCALSTORAGE_VENUE_ID_KEY, Get(selectedVenue, <<"venue_id">>))
    ELSE removeItem(st, LOCALSTORAGE_VENUE_ID_KEY)

\* the effect that persists the debounced singer name
PersistSinger(st, debouncedSingerName) ==
    IF Truthy(debouncedSingerName)
    THEN setItem(st, LOCALSTORAGE_SINGER_NAME_KEY, debouncedSingerName)
    ELSE removeItem(st, LOCALSTORAGE_SINGER_NAME_KEY)

\* the storage and the component state a handler leaves
Rendered(st, f) == [st |-> st, f |-> f]

\* the first render and the effects of the mount, in the order of declaration:
\* fetchAllVenues runs up to its await, then the two persisting effects
FormMount(st, song) ==
    LET name == OrElse(getItem(st, LOCALSTORAGE_SINGER_NAME_KEY), Str(<<>>))
        f == [mounted |-> TRUE, allVenues |-> Arr(<<>>), venuesLoading |-> TRUE,
              selectedVenue |-> Null, singerName |-> name,
              debouncedSingerName |-> name, keyChange |-> Num(0),
              selectedSong |-> song, submitLoading |-> FALSE,
              submitError |-> Null, submitSuccessMessage |-> Null,
              fetching |-> TRUE, request |-> Null,
              storedAtMount |-> getItem(st, LOCALSTORAGE_VENUE_ID_KEY)]
    IN Rendered(PersistSinger(PersistVenue(st, f.selectedVenue), name), f)

\* fetchAllVenues after getVenues has resolved
FetchAllVenuesResolved(st, f, response) ==
    LET fetchedVenues == OrElse(Get(response, <<"venues">>), Arr(<<>>))
        storedVenueIdStr == getItem(st, LOCALSTORAGE_VENUE_ID_KEY)
        foundVenue == FindVenue(fetchedVenues, parseInt(storedVenueIdStr))
        g == [f EXCEPT !.allVenues = fetchedVenues, !.venuesLoading = FALSE,
                       !.fetching = FALSE]
    IN IF ~Truthy(storedVenueIdStr) THEN Rendered(st, g)
       ELSE IF Truthy(foundVenue) /\ Accepting(foundVenue)
            THEN Rendered(PersistVenue(st, foundVenue),
                          [g EXCEPT !.selectedVenue = foundVenue])
            ELSE Rendered(removeItem(st, LOCALSTORAGE_VENUE_ID_KEY), g)

\* fetchAllVenues after getVenues has rejected
FetchAllVenuesRejected(st, f) ==
    Rendered(st, [f EXCEPT !.venuesLoading = FALSE, !.fetching = FALSE])

VenueMessage(venue, text) ==
    Str(<<"Venue ", Q>> \o ToStr(Get(venue, <<"name">>)) \o <<Q, text>>)

\* handleVenueSelect and the persisting effect
HandleVenueSelect(st, f, venue) ==
    LET g == IF ~Accepting(venue)
             THEN [f EXCEPT !.submitError =
                              VenueMessage(venue, " is not currently accepting requests."),
                            !.selectedVenue = Null]
             ELSE [f EXCEPT !.selectedVenue = venue, !.submitError = Null,
                            !.submitSuccessMessage = Null]
    IN Rendered(PersistVenue(st, g.selectedVenue), g)

\* clearVenueSelection and the persisting effect
ClearVenueSelection(st, f) ==
    LET g == [f EXCEPT !.selectedVenue = Null, !.submitError = Null,
                       !.submitSuccessMessage = Null]
    IN Rendered(PersistVenue(st, g.selectedVenue), g)

RequestData(f) ==
    Obj(<<Prop(<<"venue_id">>, Get(f.selectedVenue, <<"venue_id">>)),
          Prop(<<"artist">>, Get(f.selectedSong, <<"artist">>)),
          Prop(<<"title">>, Get(f.selectedSong, <<"title">>)),
          Prop(<<"singer_name">>, Trim(f.singerName)),
          Prop(<<"key_change">>, f.keyChange)>>)

\* the double check of the venue in handleSubmit
VenueStillAcceptingTrusted(f) == TRUE

VenueStillAccepting(f) ==
    LET currentVenue == FindVenue(f.allVenues, Get(f.selectedVenue, <<"venue_id">>))
    IN Truthy(currentVenue) /\ Accepting(currentVenue)

\* handleSubmit up to await submitRequest(requestData)
HandleSubmit(st, f) ==
    LET g == [f EXCEPT !.submitError = Null, !.submitSuccessMessage = Null] IN
    IF ~Truthy(f.selectedVenue)
    THEN Rendered(st, [g EXCEPT !.submitError =
                                  Str(<<"Please select an active venue first.">>)])
    ELSE IF ~Truthy(f.selectedSong)
    THEN Rendered(st, [g EXCEPT !.submitError = Str(<<"Please select a song.">>)])
    ELSE IF ~Truthy(Trim(f.singerName))
    THEN Rendered(st, [g EXCEPT !.submitError = Str(<<"Your Name is required.">>)])
    ELSE IF ~VenueStillAccepting(f)
    THEN Rendered(PersistVenue(removeItem(st, LOCALSTORAGE_VENUE_ID_KEY), Null),
                  [g EXCEPT !.submitError =
                              VenueMessage(f.selectedVenue,
                                " is no longer accepting requests. Please select another venue."),
                            !.selectedVenue = Null])
    ELSE Rendered(st, [g EXCEPT !.submitLoading = TRUE, !.request = RequestData(f)])

\* handleSubmit after submitRequest has resolved
SubmitResolved(f, response) ==
    [f EXCEPT !.submitSuccessMessage =
                 OrElse(Get(response, <<"message">>),
                        Str(<<"Request submitted successfully!">>)),
              !.selectedSong = Null, !.singerName = Str(<<>>), !.keyChange = Num(0),
              !.submitLoading = FALSE, !.request = Null]

\* handleSubmit after submitRequest has rejected with an error without details
SubmitRejected(f, err) ==
    [f EXCEPT !.submitError = OrElse(err.errorString,
                                OrElse(err.message, Str(<<"Failed to submit request.">>))),
              !.submitLoading = FALSE, !.request = Null]

\* the form below the venue selection is rendered
FormShown(f) == f.mounted /\ Truthy(f.selectedVenue) /\ Accepting(f.selectedVenue)

\* the inputs of the form are enabled
InputsEnabled(f) == FormShown(f) /\ ~f.submitLoading /\ ~Truthy(f.submitSuccessMessage)

\* what the two keys may hold when the visitor, not logged in, opens /request
FormStorages ==
    { [k \in ks |-> IF k = LOCALSTORAGE_VENUE_ID_KEY THEN id ELSE W("Al")] :
        ks \in SUBSET {LOCALSTORAGE_VENUE_ID_KEY, LOCALSTORAGE_SINGER_NAME_KEY},
        id \in {Str(NumToDigits(i)) : i \in 1..(MaxVenueId + 1)} \cup {W("x")} }

FormInit ==
    /\ storage \in FormStorages
    /\ token = Null
    /\ user = Null
    /\ isLoading = FALSE
    /\ last = NoOp
    /\ prevRead = NoOp
    /\ prevLogout = NoOp
    /\ lg = NoLogin
    /\ http = NoRequest
    /\ nav = Location("/request", NoFrom, "none")
    /\ loginForm = IdleForm
    /\ deb = NoDebounce
    /\ search = NoSearch
    /\ form = NoForm

FormFrame ==
    UNCHANGED <<token, user, isLoading, prevRead, prevLogout, lg, http,
                nav, loginForm, deb, search>>

FormStep(name, r) ==
    /\ storage' = r.st
    /\ form' = r.f
    /\ last' = Op(name, storage, Undef, FALSE, {})
    /\ FormFrame

MountRequestForm ==
    /\ ~form.mounted
    /\ \E song \in Songs \cup {Null} : FormStep("mount", FormMount(storage, song))

VenuesLoaded ==
    /\ form.mounted
    /\ form.fetching
    /\ \E response \in VenueResponses :
         FormStep("venuesLoaded", FetchAllVenuesResolved(storage, form, response))

VenuesFailed ==
    /\ form.mounted
    /\ form.fetching
    /\ FormStep("venuesFailed", FetchAllVenuesRejected(storage, form))

\* a venue of the list of VenueSelection is clicked; closed venues are disabled
SelectVenue ==
    /\ form.mounted
    /\ ~form.venuesLoading
    /\ \E venue \in {v \in Venues : Accepting(v)} :
         FormStep("handleVenueSelect", HandleVenueSelect(storage, form, venue))

ClearVenue ==
    /\ form.mounted
    /\ ~form.venuesLoading
    /\ Truthy(form.selectedVenue)
    /\ FormStep("clearVenueSelection", ClearVenueSelection(storage, form))

\* handleSongSelect
SelectSong ==
    /\ InputsEnabled(form)
    /\ ~Truthy(form.selectedSong)
    /\ \E song \in Songs :
         FormStep("handleSongSelect",
                  Rendered(storage, [form EXCEPT !.selectedSong = song,
                                                 !.submitError = Null]))

\* clearSelectedSong
ClearSong ==
    /\ InputsEnabled(form)
    /\ Truthy(form.selectedSong)
    /\ FormStep("clearSelectedSong",
                Rendered(storage, [form EXCEPT !.selectedSong = Null]))

\* handleSingerNameChange
ChangeSingerName ==
    /\ InputsEnabled(form)
    /\ Truthy(form.selectedSong)
    /\ \E name \in SingerNames \ {form.singerName} :
         FormStep("handleSingerNameChange",
                  Rendered(storage, [form EXCEPT !.singerName = name]))

\* the debounced singer name catches up and is persisted
SingerNameDebounced ==
    /\ form.mounted
    /\ form.debouncedSingerName # form.singerName
    /\ FormStep("debouncedSingerName",
                Rendered(PersistSinger(storage, form.singerName),
                         [form EXCEPT !.debouncedSingerName = form.singerName]))

\* onSubmit of the rendered form
SubmitForm ==
    /\ FormShown(form)
    /\ ~form.submitLoading
    /\ FormStep("RequestForm.handleSubmit", HandleSubmit(storage, form))

SubmitResponses == {Obj(<<Prop(<<"message">>, W("Queued"))>>), Obj(<<>>)}

SubmitErrors == {createApiError(W("Venue closed"), Num(400), Undef, Undef)}

SubmitResolves ==
    /\ form.mounted
    /\ Truthy(form.request)
    /\ \E response \in SubmitResponses :
         FormStep("submitResolved", Rendered(storage, SubmitResolved(form, response)))

SubmitRejects ==
    /\ form.mounted
    /\ Truthy(form.request)
    /\ \E err \in SubmitErrors :
         FormStep("submitRejected", Rendered(storage, SubmitRejected(form, err)))

FormNext ==
    \/ MountRequestForm
    \/ VenuesLoaded
    \/ VenuesFailed
    \/ SelectVenue
    \/ ClearVenue
    \/ SelectSong
    \/ ClearSong
    \/ ChangeSingerName
    \/ SingerNameDebounced
    \/ SubmitForm
    \/ SubmitResolves
    \/ SubmitRejects

SpecForm == FormInit /\ [][FormNext]_vars

-----------------------------------------------------------------------------
(* Properties *)

Has(st, k) == k \in DOMAIN st

NoSessionKey(st) == ~Has(st, TOKEN_KEY) /\ ~Has(st, USER_KEY)

UserKeys ==
    {<<"id">>, <<"patronId">>, <<"first_name">>, <<"last_name">>, <<"email">>,
     <<"mobile_number">>}

\* two profiles read the same on every field
SameProfile(a, b) ==
    /\ a.t = "object"
    /\ b.t = "object"
    /\ \A k \in UserKeys : Get(a, k) = Get(b, k)

HasIdAndEmail(u) == Truthy(Get(u, <<"id">>)) /\ Truthy(Get(u, <<"email">>))

HasIdEmailAndPatronId(u) == HasIdAndEmail(u) /\ Truthy(Get(u, <<"patronId">>))

\* the provider has been mounted afresh and initialized right after a login
ReloadedAfterLogin == lg.on /\ last.op = "initialize"

\* C1 as stated: for every token and profile, login followed by a reload ends
\* Authenticated with the same token and the same profile values, provided
\* the two storage writes of login succeeded (here: for a non-empty token,
\* and when no storage call of the initialization failed).
C1_RoundTripAnyInput ==
    (ReloadedAfterLogin /\ lg.wrote /\ last.fails = {} /\ Truthy(lg.token))
        => (isAuthenticated /\ token = lg.token /\ SameProfile(user, lg.user))

\* C1 amended: for every non-empty token and every profile whose id, patronId
\* and email are truthy, login followed by a reload ends Authenticated with
\* the same token and the same profile values, provided the two storage
\* writes of login and the two storage reads of the initialization succeeded.
C1_RoundTrip ==
    (/\ ReloadedAfterLogin
     /\ lg.wrote
     /\ "get" \notin last.fails
     /\ Truthy(lg.token)
     /\ HasIdEmailAndPatronId(lg.user))
        => (isAuthenticated /\ token = lg.token /\ SameProfile(user, lg.user))

C1_Witness ==
    /\ ReloadedAfterLogin
    /\ lg.wrote
    /\ "get" \notin last.fails
    /\ Truthy(lg.token)
    /\ HasIdEmailAndPatronId(lg.user)
    /\ isAuthenticated
    /\ user # lg.user

\* C2: when storage holds a token but no profile key, Initialize ends
\* Unauthenticated and leaves neither the token key nor the profile key in
\* storage (here: for a non-empty token, and when no storage call failed).
C2_NoKeyLeftWhenUnauthenticated ==
    (/\ last.op = "initialize"
     /\ last.fails = {}
     /\ Has(last.pre, TOKEN_KEY)
     /\ Truthy(last.pre[TOKEN_KEY])
     /\ ~Has(last.pre, USER_KEY))
        => (~isAuthenticated /\ NoSessionKey(storage))

\* C3: after a completed Initialize, Login or Logout storage holds both the
\* token key and the profile key or neither (here: when no storage call
\* failed during it and no stored value is the empty string).
C3_TokenAndProfileTogether ==
    (/\ last.op \in {"initialize", "login", "logout"}
     /\ last.fails = {}
     /\ \A k \in DOMAIN storage : Truthy(storage[k]))
        => (Has(storage, TOKEN_KEY) <=> Has(storage, USER_KEY))

\* the storage Initialize started from holds a non-empty token and a profile
\* that parses
HeldTokenAndProfile(st) ==
    /\ Has(st, TOKEN_KEY)
    /\ Has(st, USER_KEY)
    /\ Truthy(st[TOKEN_KEY])
    /\ JSONparse(st[USER_KEY]).ok

\* C4 as stated: Initialize enters Authenticated whenever storage holds a
\* token and a profile with a non-empty identifier and an email; no further
\* profile field is required.
C4_IdAndEmailSuffice ==
    (/\ last.op = "initialize"
     /\ last.fails = {}
     /\ HeldTokenAndProfile(last.pre)
     /\ HasIdAndEmail(JSONparse(last.pre[USER_KEY]).val))
        => isAuthenticated

\* C4 amended: Initialize enters Authenticated, holding the stored token and
\* the stored profile, whenever storage holds a non-empty token and a profile
\* whose id, email and patronId are all truthy and the two storage reads
\* succeed; a stored profile with id and email but no patronId ends
\* Unauthenticated with both keys removed (when no storage call fails).
C4_Initialize ==
    /\ (/\ last.op = "initialize"
        /\ "get" \notin last.fails
        /\ HeldTokenAndProfile(last.pre)
        /\ HasIdEmailAndPatronId(JSONparse(last.pre[USER_KEY]).val))
           => (/\ isAuthenticated
               /\ token = last.pre[TOKEN_KEY]
               /\ user = JSONparse(last.pre[USER_KEY]).val)
    /\ (/\ last.op = "initialize"
        /\ last.fails = {}
        /\ HeldTokenAndProfile(last.pre)
        /\ HasIdAndEmail(JSONparse(last.pre[USER_KEY]).val)
        /\ ~Truthy(Get(JSONparse(last.pre[USER_KEY]).val, <<"patronId">>)))
           => (~isAuthenticated /\ NoSessionKey(storage))

C4_Witness ==
    /\ last.op = "initialize"
    /\ "get" \notin last.fails
    /\ HeldTokenAndProfile(last.pre)
    /\ HasIdEmailAndPatronId(JSONparse(last.pre[USER_KEY]).val)
    /\ isAuthenticated

\* C5 as stated: getUserFromStorage returns null or a profile that has both
\* an identifier and an email.
C5_ReturnsIdAndEmail ==
    (last.op = "getUserFromStorage" /\ last.ret # Null) => HasIdAndEmail(last.ret)

\* C5 amended: getUserFromStorage returns null or a parsed object with a
\* truthy email (the identifier is not checked there); when it returns null
\* for a non-empty stored value the profile key has been removed, unless that
\* removal itself failed.
C5_ReturnsNullOrEmail ==
    last.op = "getUserFromStorage" =>
        /\ \/ last.ret = Null
           \/ last.ret.t = "object" /\ Truthy(Get(last.ret, <<"email">>))
        /\ (/\ last.ret = Null
            /\ Has(last.pre, USER_KEY)
            /\ Truthy(last.pre[USER_KEY])
            /\ "remove" \notin last.fails)
               => ~Has(storage, USER_KEY)

C5_Witness ==
    /\ last.op = "getUserFromStorage"
    /\ last.ret # Null
    /\ Truthy(Get(last.ret, <<"email">>))
    /\ ~Truthy(Get(last.ret, <<"id">>))

\* the profile key holds a text that does not parse, or a value without an
\* identifier or without an email
CorruptedOrIncomplete(st) ==
    /\ Has(st, USER_KEY)
    /\ LET p == JSONparse(st[USER_KEY]) IN ~p.ok \/ ~HasIdAndEmail(p.val)

\* the profile key holds a non-empty text that does not parse, or a value
\* that is no object with a truthy email
Unusable(st) ==
    /\ Has(st, USER_KEY)
    /\ Truthy(st[USER_KEY])
    /\ LET p == JSONparse(st[USER_KEY]) IN
       ~p.ok \/ p.val.t # "object" \/ ~Truthy(Get(p.val, <<"email">>))

\* C6 as stated: on a corrupted or incomplete profile the first
\* getUserFromStorage returns null and leaves the key absent, and a second
\* one returns null without throwing and without changing storage (here:
\* for a non-empty stored value, and when no storage call failed).
C6_HealsCorruptedOrIncomplete ==
    /\ (last.op = "getUserFromStorage" /\ last.fails = {}
        /\ CorruptedOrIncomplete(last.pre) /\ Truthy(last.pre[USER_KEY]))
           => (last.ret = Null /\ ~Has(storage, USER_KEY))
    /\ (last.op = "getUserFromStorage" /\ last.fails = {}
        /\ prevRead.op = "getUserFromStorage" /\ prevRead.fails = {}
        /\ CorruptedOrIncomplete(prevRead.pre) /\ Truthy(prevRead.pre[USER_KEY]))
           => (last.ret = Null /\ ~last.threw /\ storage = last.pre)

\* C6 amended: when the profile key holds a non-empty value that does not
\* parse or is no object with a truthy email, the first getUserFromStorage
\* returns null without throwing and, unless its removal failed, leaves the
\* key absent; a second one also returns null without throwing, and leaves
\* storage unchanged when the first removal succeeded.
C6_SelfHealingRead ==
    /\ (last.op = "getUserFromStorage" /\ Unusable(last.pre))
           => /\ last.ret = Null
              /\ ~last.threw
              /\ "remove" \notin last.fails => ~Has(storage, USER_KEY)
    /\ (last.op = "getUserFromStorage" /\ prevRead.op = "getUserFromStorage"
        /\ Unusable(prevRead.pre))
           => /\ last.ret = Null
              /\ ~last.threw
              /\ "remove" \notin prevRead.fails => storage = last.pre

C6_Witness ==
    /\ last.op = "getUserFromStorage"
    /\ prevRead.op = "getUserFromStorage"
    /\ Unusable(prevRead.pre)
    /\ "remove" \notin prevRead.fails
    /\ last.ret = Null
    /\ ~Has(storage, USER_KEY)

\* what getAuthToken and getUserFromStorage return on the current storage,
\* whether or not their own storage calls fail
ReadsReturnNull(st) ==
    /\ \A f \in BOOLEAN : getAuthToken(st, f).ret = Null
    /\ \A f \in BOOLEAN, g \in BOOLEAN : getUserFromStorage(st, f, g).ret = Null

StoreWrites ==
    {"setAuthToken", "removeAuthToken", "setUserInStorage", "removeUserFromStorage"}

\* C8: no operation of the session store throws to its caller; when the
\* storage call fails a read returns null and a write or a remove changes
\* nothing.
C8_StoreNeverThrows ==
    last.op # "none" =>
        /\ ~last.threw
        /\ "get" \in last.fails => last.ret = Null
        /\ (last.op \in StoreWrites /\ last.fails # {}) => storage = last.pre
        /\ (last.op = "getUserFromStorage" /\ "remove" \in last.fails)
              => storage = last.pre

C8_Witness ==
    /\ last.op = "setAuthToken"
    /\ "set" \in last.fails
    /\ ~last.threw
    /\ storage = last.pre

Settled == http.phase = "settled"

\* a Canonical API Error: isApiError and error are true, the message a string
Canonical(e) ==
    /\ e.isApiError = Bool(TRUE)
    /\ e.error = Bool(TRUE)
    /\ e.message.t = "string"

\* C9: whatever the transport does, handleRequest resolves with a payload or
\* rejects with a Canonical API Error; no other failure reaches the caller.
C9_NormalizationTotal ==
    Settled =>
        \/ http.res.kind = "resolve"
        \/ http.res.kind = "reject" /\ Canonical(http.res.err)

C9_Witness ==
    /\ Settled
    /\ ~http.out.fetchFails
    /\ http.out.status = 200
    /\ http.out.body = Str(<<"null">>)
    /\ http.res.kind = "reject"
    /\ Canonical(http.res.err)

\* C10: a body that parses, carries no error flag set true and comes with a
\* successful status other than 204 is resolved verbatim, for every parsed
\* value, null included.
C10_ParsedBodyVerbatim ==
    (/\ Settled
     /\ ~http.out.fetchFails
     /\ ~http.out.textFails
     /\ http.out.status # 204
     /\ ResponseOk(http.out.status)
     /\ JSONparse(http.out.body).ok
     /\ \/ Nullish(JSONparse(http.out.body).val)
        \/ Get(JSONparse(http.out.body).val, <<"error">>) # Bool(TRUE))
        => (http.res.kind = "resolve" /\ http.res.val = JSONparse(http.out.body).val)

\* the response arrived and its text was read
BodyRead ==
    /\ Settled
    /\ ~http.out.fetchFails
    /\ http.out.status # 204
    /\ ~http.out.textFails

ParsedBody == JSONparse(http.out.body)

\* the parsed body carries the error flag set true
BodyFlagged ==
    /\ ParsedBody.ok
    /\ ~Nullish(ParsedBody.val)
    /\ Get(ParsedBody.val, <<"error">>) = Bool(TRUE)

\* C11: a parsed body whose error flag is true makes handleRequest reject,
\* whatever the status (2xx included), with a Canonical API Error whose
\* message is the errorString of the body when that is a non-empty string and
\* "API Error: <status>" otherwise, whose status is the response status,
\* whose details are the details of the body and whose raw body is the body.
C11_FlaggedBodyRejected ==
    (BodyRead /\ BodyFlagged) =>
        /\ http.res.kind = "reject"
        /\ Canonical(http.res.err)
        /\ LET e == http.res.err
               es == Get(ParsedBody.val, <<"errorString">>)
               expected == IF Truthy(es) THEN es
                           ELSE Str(<<"API Error: ">> \o NumToDigits(http.out.status))
           IN /\ e.message = expected
              /\ e.errorString = expected
              /\ e.status = Num(http.out.status)
              /\ e.details = Get(ParsedBody.val, <<"details">>)
              /\ e.apiResponse = ParsedBody.val

C11_Witness ==
    /\ BodyRead
    /\ BodyFlagged
    /\ http.out.status = 200
    /\ Get(ParsedBody.val, <<"errorString">>) = W("Bad")
    /\ http.res.kind = "reject"
    /\ http.res.err.message = W("Bad")
    /\ http.res.err.status = Num(200)
    /\ http.res.err.details = Arr(<<W("email")>>)

\* C12: a parsed body without the error flag that comes with a failing
\* status makes handleRequest reject with a Canonical API Error that carries
\* the response status and a message taken from the message or errorString
\* field of the body (a generic one when it has neither); it never resolves.
C12_UnflaggedFailureCarriesStatus ==
    (/\ BodyRead
     /\ ParsedBody.ok
     /\ ~BodyFlagged
     /\ ~ResponseOk(http.out.status))
        => /\ http.res.kind = "reject"
           /\ Canonical(http.res.err)
           /\ http.res.err.status = Num(http.out.status)
           /\ \/ Nullish(ParsedBody.val)
              \/ http.res.err.message \in
                   { Get(ParsedBody.val, <<"message">>),
                     Get(ParsedBody.val, <<"errorString">>),
                     Str(<<"Request failed: ">> \o NumToDigits(http.out.status)) }

\* C13: a body that is no JSON (the empty body included), under a status
\* other than 204, is resolved verbatim exactly when the status is 2xx;
\* otherwise handleRequest rejects with a Canonical API Error that carries
\* the status, the message "Request failed: <status> <status text, or the
\* raw text when there is no status text>" and neither details nor raw body.
C13_UnparsedBody ==
    (BodyRead /\ ~ParsedBody.ok) =>
        IF ResponseOk(http.out.status)
        THEN http.res = Resolve(http.out.body)
        ELSE /\ http.res.kind = "reject"
             /\ Canonical(http.res.err)
             /\ http.res.err.status = Num(http.out.status)
             /\ http.res.err.message =
                  Str(<<"Request failed: ">> \o NumToDigits(http.out.status) \o <<" ">>
                      \o (IF http.out.statusText.s # <<>> THEN http.out.statusText.s
                          ELSE http.out.body.s))
             /\ http.res.err.details = Undef
             /\ http.res.err.apiResponse = Undef

C13_Witness ==
    /\ BodyRead
    /\ http.out.status = 500
    /\ http.out.statusText = Str(<<>>)
    /\ http.out.body = Str(<<"<html>">>)
    /\ http.res.kind = "reject"
    /\ http.res.err.message = Str(<<"Request failed: ", "5", "0", "0", " ", "<html>">>)

\* C14: a response with status 204 resolves with an empty object, whatever
\* Accept header the request carried and whatever the body holds; the body is
\* not read, so neither its content nor a failure to read it changes that.
C14_NoContentShortCircuit ==
    (Settled /\ ~http.out.fetchFails /\ http.out.status = 204) =>
        http.res = Resolve(Obj(<<>>))

C14_Witness ==
    /\ Settled
    /\ ~http.out.fetchFails
    /\ http.out.status = 204
    /\ http.call.op = "getHealth"
    /\ http.req.headers["Accept"] # defaultHeaders["Accept"]
    /\ JSONparse(http.out.body).ok
    /\ Get(JSONparse(http.out.body).val, <<"error">>) = Bool(TRUE)
    /\ http.res = Resolve(Obj(<<>>))

\* C15: when fetch fails before a response arrives, handleRequest has made
\* exactly one transport call and rejects with a Canonical API Error whose
\* message is the message of the transport failure and whose status is absent.
C15_TransportFailure ==
    (Settled /\ http.out.fetchFails) =>
        /\ http.fetches = 1
        /\ http.res.kind = "reject"
        /\ Canonical(http.res.err)
        /\ http.res.err.message = Str(<<"Failed to fetch">>)
        /\ http.res.err.status = Undef

C15_Witness ==
    /\ Settled
    /\ http.out.fetchFails
    /\ http.fetches = 1
    /\ http.res.kind = "reject"
    /\ http.res.err.status = Undef

\* a request of an endpoint that takes a token was issued
IssuedWithToken ==
    /\ http.phase \in {"pending", "settled"}
    /\ http.call.op \in AuthOps

C17_InitializationGating ==
    /\ isLoading => (AuthProviderRender = "loading" /\ last.op \in {"none", "reload"})
    /\ AuthProviderRender = "children" =>
         /\ last.op \in {"initialize", "login", "logout"}
         /\ (token = Null) <=> (user = Null)
         /\ ProtectedRoute = "children" => (Truthy(token) /\ Truthy(user))

C17_Witness ==
    /\ isLoading
    /\ last.op = "reload"
    /\ HeldTokenAndProfile(storage)
    /\ AuthProviderRender = "loading"
    /\ token = Null
    /\ user = Null

C20_Step ==
    (AuthState' # AuthState) =>
        \/ AuthState = "Unknown" /\ last'.op = "initialize"
        \/ AuthState # "Unknown" /\ AuthState' = "Unknown" /\ last'.op = "reload"
        \/ AuthState = "Unauthenticated" /\ AuthState' = "Authenticated"
             /\ last'.op = "login"
        \/ AuthState = "Authenticated" /\ AuthState' = "Unauthenticated"
             /\ last'.op \in {"login", "logout"}

\* C20: the auth state starts Unknown; it leaves Unknown only through
\* Initialize; login and logout never bring it back to Unknown (only a new
\* page load, which mounts a new provider, starts from Unknown again); and it
\* moves between Unauthenticated and Authenticated only through login and
\* logout.
C20_OnlyThreeTransitions == (AuthState = "Unknown") /\ [][C20_Step]_vars

C20_Witness ==
    /\ last.op = "logout"
    /\ prevLogout = NoOp
    /\ Has(last.pre, TOKEN_KEY)
    /\ AuthState = "Unauthenticated"
    /\ NoSessionKey(storage)

\* C21 as the specification states it: in every settled state token and
\* user are both held or both not, and isAuthenticated is true exactly when
\* both are held.
C21_AuthenticatedIffBothHeld ==
    ~isLoading =>
        /\ (token = Null) <=> (user = Null)
        /\ isAuthenticated <=> (token # Null /\ user # Null)

\* C21: in every settled state token and user are both null or both not
\* null, and isAuthenticated is true exactly when both are held and the token
\* is not the empty string; after login with an empty token both are held and
\* the state is Unauthenticated.
C21_TokenAndUserPaired ==
    ~isLoading =>
        /\ (token = Null) <=> (user = Null)
        /\ isAuthenticated <=> (token # Null /\ user # Null /\ token # Str(<<>>))
        /\ (last.op = "login" /\ lg.token = Str(<<>>)) =>
             (token = Str(<<>>) /\ user = lg.user /\ AuthState = "Unauthenticated")

C21_Witness ==
    /\ last.op = "login"
    /\ token = Str(<<>>)
    /\ user # Null
    /\ ~isAuthenticated

\* C26: from the Unknown state the initialization effect always ends with
\* isLoading false, whatever storage holds and whichever storage calls fail;
\* the application never stays in the loading state.
C26_InitializeCompletes ==
    /\ [](last.op = "initialize" => ~isLoading)
    /\ (isLoading ~> ~isLoading)

C26_Witness ==
    /\ last.op = "initialize"
    /\ last.fails = {"get", "remove"}
    /\ Has(last.pre, TOKEN_KEY)
    /\ ~isLoading

\* an error was built although a response had arrived
ErrorAfterResponse ==
    /\ Settled
    /\ ~http.out.fetchFails
    /\ http.res.kind = "reject"

\* C27: a Canonical API Error lacks the status only when the transport
\* failed before a response arrived, and carries a status only when a
\* response of that status arrived.
C27_StatusIffResponse ==
    /\ ErrorAfterResponse => http.res.err.status = Num(http.out.status)
    /\ (Settled /\ http.out.fetchFails) => http.res.err.status = Undef
    /\ http.phase = "refused" => http.res.err.status = Undef

\* C29: the content of /favorites is rendered exactly in the Authenticated
\* state; in the Unknown state the loading indicator is shown, in the
\* Unauthenticated state the route redirects to /login, and after a logout
\* the content is not rendered.
C29_ProtectedContent ==
    /\ FavoritesRoute = "children" <=> AuthState = "Authenticated"
    /\ AuthState = "Unknown" => FavoritesRoute = "loading"
    /\ AuthState = "Unauthenticated" => FavoritesRoute = "redirect"
    /\ last.op = "logout" => FavoritesRoute = "redirect"

C29_Witness ==
    /\ last.op = "logout"
    /\ Has(last.pre, TOKEN_KEY)
    /\ "remove" \in last.fails
    /\ Has(storage, TOKEN_KEY)
    /\ FavoritesRoute = "redirect"

\* the songs displayed are the answer to the query q
ShowsAnswerTo(q) == search.results = Arr(<<Song(q)>>)

\* C22: searches in flight are independent and none is cancelled: every
\* search issued is in flight or has been delivered, and the response that
\* arrived last decides what is displayed, whether or not its query is the
\* current one.  So the answer to an older query can arrive last and be
\* displayed under a newer query.
C22_LastArrivalDisplayed ==
    /\ search.issued = Cardinality(search.inflight) + Len(search.delivered)
    /\ \A r \in search.inflight : r.id \in 1..search.issued
    /\ (search.delivered # <<>> /\ search.arrived.ans.kind = "resolve"
        /\ search.loading = FALSE /\ Truthy(Trim(deb.debouncedValue)))
         => search.results = OrElse(Get(search.arrived.ans.val, <<"songs">>), Arr(<<>>))

C22_Witness ==
    /\ search.issued = 2
    /\ search.delivered = <<2, 1>>
    /\ search.arrived.q = W("a")
    /\ ShowsAnswerTo(W("a"))
    /\ deb.value = W("b")
    /\ deb.debouncedValue = W("b")
    /\ search.params = W("b")
    /\ search.inflight = {}

\* a step of the hook that changes the value it returns
C23_Emission ==
    (deb'.debouncedValue # deb.debouncedValue) =>
        /\ deb'.debouncedValue = deb.value
        /\ deb'.value = deb.value
        /\ deb.age = Delay

\* C23: the value useDebounce returns changes only to the current input, and
\* only after that input has kept its value for the whole delay; an input
\* replaced before the delay has passed is not emitted; and once the input
\* stops changing the returned value ends up equal to the latest input.
C23_Debounce ==
    /\ [][C23_Emission]_vars
    /\ <>[](deb.debouncedValue = deb.value)

C23_Witness ==
    /\ deb.changes = 2
    /\ deb.value = W("b")
    /\ deb.debouncedValue = W("b")
    /\ deb.timer = NoTimer
    /\ deb.age = Delay


\* C25: right after a successful submission of the login form the location is
\* the one the visitor was redirected from, or /favorites when there was none,
\* put there by handleSubmit; right after logout the location is /login.
C25_NavigationAfterLoginAndLogout ==
    /\ last.op = "handleSubmit" =>
         /\ nav.by = "Login.handleSubmit"
         /\ nav.path = IF loginForm.at.from # NoFrom THEN loginForm.at.from
                        ELSE "/favorites"
    /\ last.op = "logout" => nav = Location("/login", NoFrom, "logout")

C25_Witness ==
    /\ last.op = "handleSubmit"
    /\ loginForm.at.from = "/favorites"
    /\ nav = Location("/favorites", NoFrom, "Login.handleSubmit")
    /\ isAuthenticated
    /\ prevLogout.op = "none"

\* C28: when loginUser rejects, login() is not called: the token and the
\* profile in memory and both storage keys stay as they were, the location
\* does not change, and the form leaves its loading state with an error
\* message.
C28_Rejected ==
    /\ loginForm.pending
    /\ ~loginForm'.pending
    /\ last'.op = "loginRejected"

C28_FailedLoginKeepsSession ==
    [][C28_Rejected =>
         /\ token' = token
         /\ user' = user
         /\ storage' = storage
         /\ lg' = lg
         /\ nav' = nav
         /\ loginForm'.loading = FALSE
         /\ Truthy(loginForm'.error)]_vars

C28_Witness ==
    /\ last.op = "loginRejected"
    /\ ~loginForm.loading
    /\ loginForm.error = W("Invalid credentials")
    /\ ~isAuthenticated
    /\ nav.path = "/login"


\* C24: when RequestForm mounts with a venue id stored under the selected-venue
\* key and the fetched list holds an accepting venue of that id, that venue is
\* the selected venue once the venues have loaded and the stored id is kept;
\* the stored id is removed only when the venue is missing or not accepting.
C24_StoredVenueRestored ==
    (form.mounted /\ last.op = "venuesLoaded" /\ Truthy(form.storedAtMount)) =>
        LET venue == FindVenue(form.allVenues, parseInt(form.storedAtMount)) IN
        /\ (Truthy(venue) /\ Accepting(venue)) =>
              /\ form.selectedVenue = venue
              /\ getItem(storage, LOCALSTORAGE_VENUE_ID_KEY) = form.storedAtMount
        /\ ~Has(storage, LOCALSTORAGE_VENUE_ID_KEY) =>
              ~(Truthy(venue) /\ Accepting(venue))

\* C30: handleSubmit issues submitRequest exactly when a venue is selected,
\* the fetched list holds that venue as accepting, a song is selected and the
\* trimmed singer name is not empty; otherwise nothing is sent and an error
\* message is set, and a venue that fails the double check is deselected and
\* its id removed from storage.
C30_VenueListed ==
    \E i \in 1..Len(form.allVenues.items) :
        /\ Get(form.allVenues.items[i], <<"venue_id">>)
             = Get(form.selectedVenue, <<"venue_id">>)
        /\ Get(form.allVenues.items[i], <<"accepting">>) = Bool(TRUE)

C30_Filled ==
    /\ form.selectedVenue # Null
    /\ form.selectedSong # Null
    /\ Trim(form.singerName) # Str(<<>>)

C30_SubmitGuards ==
    [][last'.op = "RequestForm.handleSubmit" =>
         /\ (form'.request # Null) <=> (C30_Filled /\ C30_VenueListed)
         /\ (form'.request # Null) =>
               /\ Get(form'.request, <<"venue_id">>)
                    = Get(form.selectedVenue, <<"venue_id">>)
               /\ Get(form'.request, <<"singer_name">>) = Trim(form.singerName)
         /\ (form'.request = Null) =>
               /\ form'.submitError \notin {Null, Str(<<>>)}
               /\ ~form'.submitLoading
         /\ (C30_Filled /\ ~C30_VenueListed) =>
               /\ form'.selectedVenue = Null
               /\ ~Has(storage', LOCALSTORAGE_VENUE_ID_KEY)]_vars

C30_Witness ==
    /\ last.op = "RequestForm.handleSubmit"
    /\ Has(last.pre, LOCALSTORAGE_VENUE_ID_KEY)
    /\ ~Has(storage, LOCALSTORAGE_VENUE_ID_KEY)
    /\ form.selectedVenue = Null
    /\ form.selectedSong # Null
    /\ form.singerName = W("Al")
    /\ form.request = Null
    /\ form.submitError # Null

=============================================================================
